---- MODULE Spec2Model ----
(***************************************************************************)
(* Attribute tagging of product records (app.py, relatorios_app.py).       *)
(*                                                                         *)
(* A Python str is modelled as a sequence of one-character strings, a      *)
(* DataFrame as a record [cols, rows]: the column labels in order and the  *)
(* rows in order, each row the sequence of its cells aligned with cols.    *)
(* Missing cells are the values NaN (float nan, object columns) and NA     *)
(* (pd.NA, the 'string' dtype ler_arquivo_eficiente converts to).          *)
(***************************************************************************)
EXTENDS Integers, Sequences, FiniteSets, TLC

VARIABLES
    data_df,              \* the data table handed to the run
    config_df,            \* the configuration table handed to the run
    modo,                 \* which processing function the run uses
    tamanho_lote,         \* batch size of processar_em_lotes_otimizado
    pc,                   \* position of the run
    erro,                 \* exception raised / st.stop() reason, "" when none
    config_dict,          \* compiled rule set: <<[attr, configs]>> in dict order
    resultados,           \* batches processed so far (generator local)
    i,                    \* start offset of the next batch (generator local)
    timeout,              \* TRUE once the timeout check of the batch loop fired
    rendimentos,          \* every (progresso, table) pair the generator yielded
    resultados_parciais,  \* consumer loop: batches received with progresso < 1.0
    result_df,            \* the result table bound by the run, NoTable before
    execucao,             \* number of the current run over the same inputs
    result_anterior,      \* result_df of the previous run, NoTable before
    render_plan,          \* get_render_plan(): "local", "free" or "paid"
    len_data_df,          \* the page's total_linhas = len(data_df)
    tem_atributos,        \* config_df has some non-null Atributo
    widgets,              \* the values the user gave the page's widgets
    usar_lotes,           \* the page's usar_lotes
    chamadas,             \* the processing functions the page has called
    len_resultados,       \* page: len(resultados) of the generator
    rendido,              \* page: the pair the generator last yielded, by length
    len_parciais,         \* page: len(resultados_parciais)
    len_result_df,        \* page: len(result_df), -1 while result_df is unbound
    partes                \* the download parts offered: <<[inicio, fim]>>

\* The variables of the page around the processing functions.
pagina == <<render_plan, len_data_df, tem_atributos, widgets, usar_lotes,
            chamadas, len_resultados, rendido, len_parciais, len_result_df,
            partes>>

vars == <<data_df, config_df, modo, tamanho_lote, pc, erro, config_dict,
          resultados, i, timeout, rendimentos, resultados_parciais,
          result_df, execucao, result_anterior, render_plan, len_data_df,
          tem_atributos, widgets, usar_lotes, chamadas, len_resultados,
          rendido, len_parciais, len_result_df, partes>>

----------------------------------------------------------------------------
(* Characters and Python str operations *)

LowerCase == <<"a","b","c","d","e","f","g","h","i","j","k","l","m","n","o",
               "p","q","r","s","t","u","v","w","x","y","z","á","â","ã","ç">>

UpperCase == <<"A","B","C","D","E","F","G","H","I","J","K","L","M","N","O",
               "P","Q","R","S","T","U","V","W","X","Y","Z","Á","Â","Ã","Ç">>

DigitChars == <<"0","1","2","3","4","5","6","7","8","9">>

\* The characters of the model in Unicode code point order (str comparison).
CodePointOrder ==
    <<" ", ",", "-">> \o DigitChars \o <<"<", ">">>
    \o SubSeq(UpperCase, 1, 26) \o <<"_">> \o SubSeq(LowerCase, 1, 26)
    \o SubSeq(UpperCase, 27, 30) \o SubSeq(LowerCase, 27, 30)

Range(s) == {s[k] : k \in DOMAIN s}

\* \w of a Python 3 str pattern: letters, digits and the underscore.
WordChars == Range(LowerCase) \cup Range(UpperCase) \cup Range(DigitChars) \cup {"_"}

IsWordChar(c) == c \in WordChars

\* The characters str.strip() removes.
IsSpaceChar(c) == c \in {" ", "\t", "\n"}

\* The lowercase letter of every uppercase letter.
LowerOf ==
    [c \in Range(UpperCase) |->
        LowerCase[CHOOSE k \in DOMAIN UpperCase : UpperCase[k] = c]]

LowerChar(c) == IF c \in DOMAIN LowerOf THEN LowerOf[c] ELSE c

\* str.lower()
lower(s) == IF s = <<>> THEN <<>> ELSE [k \in 1..Len(s) |-> LowerChar(s[k])]

\* str.strip()
RECURSIVE lstrip(_)
lstrip(s) == IF s # <<>> /\ IsSpaceChar(Head(s)) THEN lstrip(Tail(s)) ELSE s

RECURSIVE rstrip(_)
rstrip(s) ==
    IF s # <<>> /\ IsSpaceChar(s[Len(s)]) THEN rstrip(SubSeq(s, 1, Len(s) - 1)) ELSE s

strip(s) == rstrip(lstrip(s))

\* str.split(sep) for a one-character separator
\* A split that leaves the text whole.
SplitSemDividir(s, sep) == <<s>>

RECURSIVE split(_, _)
split(s, sep) ==
    IF \E k \in 1..Len(s) : s[k] = sep
    THEN LET k == CHOOSE n \in 1..Len(s) : s[n] = sep /\ \A m \in 1..(n - 1) : s[m] # sep
         IN  <<SubSeq(s, 1, k - 1)>> \o split(SubSeq(s, k + 1, Len(s)), sep)
    ELSE <<s>>

\* sep.join(parts)
RECURSIVE join(_, _)
join(sep, parts) ==
    IF parts = <<>> THEN <<>>
    ELSE IF Len(parts) = 1 THEN parts[1]
    ELSE parts[1] \o sep \o join(sep, Tail(parts))

\* `p in s` for two strs
contains(p, s) ==
    \E k \in 1..(Len(s) - Len(p) + 1) : SubSeq(s, k, k + Len(p) - 1) = p

\* a < b for two strs (code point order, shorter prefix first)
Ord ==
    [c \in Range(CodePointOrder) |->
        CHOOSE k \in DOMAIN CodePointOrder : CodePointOrder[k] = c]

RECURSIVE StrLess(_, _)
StrLess(a, b) ==
    IF b = <<>> THEN FALSE
    ELSE IF a = <<>> THEN TRUE
    ELSE IF Head(a) # Head(b) THEN Ord[Head(a)] < Ord[Head(b)]
    ELSE StrLess(Tail(a), Tail(b))

----------------------------------------------------------------------------
(* Regular expressions: re.compile(r'\b' + re.escape(pattern) + r'\b') *)

\* \b between s[k-1] and s[k]: exactly one side is a word character; the
\* outside of the string counts as a non-word character.
BoundaryAt(s, k) ==
    LET antes  == k > 1 /\ IsWordChar(s[k - 1])
        depois == k <= Len(s) /\ IsWordChar(s[k])
    IN  antes # depois

\* MatchAt without the two \b: a plain substring test.
MatchAtSemFronteira(p, s, k) ==
    /\ k + Len(p) - 1 <= Len(s)
    /\ SubSeq(s, k, k + Len(p) - 1) = p

\* The compiled pattern matches with its first character at position k.
MatchAt(p, s, k) ==
    /\ k + Len(p) - 1 <= Len(s)
    /\ BoundaryAt(s, k)
    /\ SubSeq(s, k, k + Len(p) - 1) = p
    /\ BoundaryAt(s, k + Len(p))

\* compiled_pattern.search(s): scan the start positions from the left.
RECURSIVE SearchFrom(_, _, _)
SearchFrom(p, s, k) ==
    IF k > Len(s) + 1 THEN FALSE
    ELSE IF MatchAt(p, s, k) THEN TRUE
    ELSE SearchFrom(p, s, k + 1)

search(p, s) == SearchFrom(p, s, 1)

----------------------------------------------------------------------------
(* Cell values and DataFrames *)

\* Missing values; neither is a sequence of characters.
NaN == <<"float:nan">>
NA  == <<"pd.NA">>

\* str(value) of a cell
str(v) ==
    IF v = NaN THEN <<"n","a","n">>
    ELSE IF v = NA THEN <<"<","N","A",">">>
    ELSE v

\* Column labels
ID        == <<"I","D">>
Descricao == <<"D","e","s","c","r","i","ç","ã","o">>
Atributo  == <<"A","t","r","i","b","u","t","o">>
Variacao  == <<"V","a","r","i","a","ç","ã","o">>
Padrao    == <<"P","a","d","r","ã","o"," ","d","e"," ",
               "r","e","c","o","n","h","e","c","i","m","e","n","t","o">>

required_data_cols   == <<ID, Descricao>>
required_config_cols == <<Atributo, Variacao, Padrao>>

\* pd.DataFrame(): no column, no row
EmptyDataFrame == [cols |-> <<>>, rows |-> <<>>]

\* The name result_df before any assignment to it.
NoTable == [cols |-> <<"unbound">>, rows |-> <<>>]

HasColumn(df, c) == \E k \in 1..Len(df.cols) : df.cols[k] = c

ColIndex(df, c) == CHOOSE k \in 1..Len(df.cols) : df.cols[k] = c

\* row[c] for the r-th row of df
Cell(df, r, c) == df.rows[r][ColIndex(df, c)]

\* df[c] = valores: overwrite the column labelled c, or append a new one.
SetColumn(df, c, valores) ==
    IF HasColumn(df, c)
    THEN [df EXCEPT !.rows =
            [r \in 1..Len(df.rows) |->
                [df.rows[r] EXCEPT ![ColIndex(df, c)] = valores[r]]]]
    ELSE [cols |-> Append(df.cols, c),
          rows |-> [r \in 1..Len(df.rows) |-> Append(df.rows[r], valores[r])]]

Min(a, b) == IF a <= b THEN a ELSE b

\* df.iloc[a:b]
ILoc(df, a, b) == [df EXCEPT !.rows = SubSeq(df.rows, a + 1, Min(b, Len(df.rows)))]

RECURSIVE ConcatRowsInvertido(_)
ConcatRowsInvertido(tabelas) ==
    IF tabelas = <<>> THEN <<>>
    ELSE ConcatRowsInvertido(Tail(tabelas)) \o Head(tabelas).rows

\* Concat with the batches taken last to first.
ConcatInvertido(tabelas) ==
    [cols |-> Head(tabelas).cols, rows |-> ConcatRowsInvertido(tabelas)]

\* pd.concat(tabelas, ignore_index=True) of tables with the same columns
RECURSIVE ConcatRows(_)
ConcatRows(tabelas) ==
    IF tabelas = <<>> THEN <<>>
    ELSE Head(tabelas).rows \o ConcatRows(Tail(tabelas))

Concat(tabelas) == [cols |-> Head(tabelas).cols, rows |-> ConcatRows(tabelas)]

\* ColunasPresentes with any() in the place of all().
ColunasPresentesAlguma(df, required) ==
    \E k \in 1..Len(required) : HasColumn(df, required[k])

\* all(col in df.columns for col in required)
ColunasPresentes(df, required) ==
    \A k \in 1..Len(required) : HasColumn(df, required[k])

----------------------------------------------------------------------------
(* config_df.groupby('Atributo'): keys sorted, null keys dropped, rows of a *)
(* group in their original order                                           *)

RECURSIVE SortKeys(_)
SortKeys(S) ==
    IF S = {} THEN <<>>
    ELSE LET m == CHOOSE x \in S : \A y \in S \ {x} : StrLess(x, y)
         IN  <<m>> \o SortKeys(S \ {m})

\* GroupKeys as groupby(sort=False) would give them: first-seen order.
RECURSIVE PrimeiraVista(_, _)
PrimeiraVista(valores, vistos) ==
    IF valores = <<>> THEN vistos
    ELSE IF Head(valores) \in Range(vistos) \cup {NaN, NA}
         THEN PrimeiraVista(Tail(valores), vistos)
         ELSE PrimeiraVista(Tail(valores), Append(vistos, Head(valores)))

GroupKeysPrimeiraVista(df) ==
    PrimeiraVista([r \in 1..Len(df.rows) |-> Cell(df, r, Atributo)], <<>>)

GroupKeys(df) ==
    SortKeys({Cell(df, r, Atributo) : r \in 1..Len(df.rows)} \ {NaN, NA})

Group(df, attr) ==
    LET idx == ColIndex(df, Atributo)
        RECURSIVE Sel(_)
        Sel(rows) ==
            IF rows = <<>> THEN <<>>
            ELSE IF Head(rows)[idx] = attr THEN <<Head(rows)>> \o Sel(Tail(rows))
            ELSE Sel(Tail(rows))
    IN  Sel(df.rows)

----------------------------------------------------------------------------
(* Rule compilation, app.py *)

\* DropEmpty without the `if p.strip()` filter.
DropEmptySemFiltro(frags) == [k \in 1..Len(frags) |-> lower(strip(frags[k]))]

RECURSIVE DropEmpty(_)
DropEmpty(frags) ==
    IF frags = <<>> THEN <<>>
    ELSE IF strip(Head(frags)) # <<>>
         THEN <<lower(strip(Head(frags)))>> \o DropEmpty(Tail(frags))
         ELSE DropEmpty(Tail(frags))

\* [p.strip().lower() for p in str(cell).split(',') if p.strip()]
patterns(cell) == DropEmpty(split(str(cell), ","))

\* One entry of config_dict[attr]; a compiled pattern is kept as the literal
\* it searches for between the two \b.
ConfigDe(df, row) ==
    [variation         |-> str(row[ColIndex(df, Variacao)]),
     compiled_patterns |-> patterns(row[ColIndex(df, Padrao)])]

\* config_dict: one (attr, configs) item per group, in groupby order
Compilar(df) ==
    LET keys == GroupKeys(df)
    IN  [k \in 1..Len(keys) |->
            [attr    |-> keys[k],
             configs |-> LET g == Group(df, keys[k])
                         IN  [n \in 1..Len(g) |-> ConfigDe(df, g[n])]]]

----------------------------------------------------------------------------
(* Matching of one description, app.py *)

\* for compiled_pattern in config['compiled_patterns']: if search: ...; break
RECURSIVE AnyPattern(_, _)
AnyPattern(pats, descricao) ==
    IF pats = <<>> THEN FALSE
    ELSE IF search(Head(pats), descricao) THEN TRUE
    ELSE AnyPattern(Tail(pats), descricao)

\* MatchedVariations without the `not in matched_variations` test.
RECURSIVE MatchedVariationsSemDedup(_, _, _)
MatchedVariationsSemDedup(configs, descricao, matched) ==
    IF configs = <<>> THEN matched
    ELSE MatchedVariationsSemDedup(
            Tail(configs), descricao,
            IF AnyPattern(Head(configs).compiled_patterns, descricao)
            THEN Append(matched, Head(configs).variation)
            ELSE matched)

\* for config in configs: ... matched_variations.append(config['variation'])
RECURSIVE MatchedVariations(_, _, _)
MatchedVariations(configs, descricao, matched) ==
    IF configs = <<>> THEN matched
    ELSE LET c == Head(configs)
             m == IF /\ AnyPattern(c.compiled_patterns, descricao)
                     /\ c.variation \notin Range(matched)
                  THEN Append(matched, c.variation)
                  ELSE matched
         IN  MatchedVariations(Tail(configs), descricao, m)

VirgulaEspaco == <<",", " ">>

\* The cell of one record for one attribute
Celula(configs, valor) ==
    LET descricao == lower(str(valor))
        matched   == MatchedVariations(configs, descricao, <<>>)
    IN  IF matched # <<>> THEN join(VirgulaEspaco, matched) ELSE <<>>

----------------------------------------------------------------------------
(* processamento_direto_otimizado, app.py *)

chunk_size == 1000

\* for j in range(0, len(data_df), chunk_size): the cells of every chunk row
RECURSIVE ColunaChunks(_, _, _)
ColunaChunks(configs, df, j) ==
    IF j >= Len(df.rows) THEN <<>>
    ELSE LET chunk == ILoc(df, j, j + chunk_size)
         IN  [r \in 1..Len(chunk.rows) |-> Celula(configs, Cell(chunk, r, Descricao))]
             \o ColunaChunks(configs, df, j + chunk_size)

\* Table objects are named: "data_df" is the table the caller handed in, and
\* a memory maps each name to the table the object holds at the moment.

\* A copy that is the same object as its original.
CopySemCopia(ref) == ref

\* DataFrame.copy(): the name of the new object that holds the copy of ref
copy(ref) == "copia"

\* for i, (attr, configs) in enumerate(config_dict.items()): result_df[attr] = ...
\* (the rows are read from data_df, the column is written to result_df)
RECURSIVE AtribuirColunas(_, _, _)
AtribuirColunas(mem, result_ref, items) ==
    IF items = <<>> THEN mem
    ELSE AtribuirColunas(
            [mem EXCEPT ![result_ref] =
                SetColumn(@, Head(items).attr,
                          ColunaChunks(Head(items).configs, mem["data_df"], 0))],
            result_ref, Tail(items))

\* The call processamento_direto_otimizado(data_df, config_df): the caller's
\* table after it and the table it returns.
ChamadaDireto(df, cfg) ==
    LET result_ref == copy("data_df")
        mem == AtribuirColunas([o \in {"data_df", result_ref} |-> df],
                               result_ref, Compilar(cfg))
    IN  [data_df |-> mem["data_df"], retorno |-> mem[result_ref]]

processamento_direto_otimizado(df, cfg) == ChamadaDireto(df, cfg).retorno

\* A column lookup of the rule compilation raises KeyError.
KeyErrorConfig(cfg) ==
    \/ ~HasColumn(cfg, Atributo)
    \/ /\ GroupKeys(cfg) # <<>>
       /\ ~(HasColumn(cfg, Padrao) /\ HasColumn(cfg, Variacao))

\* row['Descrição'] raises KeyError: some row is read for some attribute.
KeyErrorData(df, cfg) ==
    /\ GroupKeys(cfg) # <<>>
    /\ df.rows # <<>>
    /\ ~HasColumn(df, Descricao)

----------------------------------------------------------------------------
(* processar_em_lotes_otimizado, app.py: one batch *)

\* for attr, configs in config_dict.items(): ... lote[attr] = coluna_resultado
\* (linha['Descrição'] is read from lote itself, after the earlier columns
\* were assigned)
RECURSIVE ProcessarAtributos(_, _)
ProcessarAtributos(lote, items) ==
    IF items = <<>> THEN lote
    ELSE ProcessarAtributos(
            SetColumn(lote, Head(items).attr,
                      [r \in 1..Len(lote.rows) |->
                          Celula(Head(items).configs, Cell(lote, r, Descricao))]),
            Tail(items))

\* lote = data_df.iloc[i:i + tamanho_lote].copy() and the attribute loop: the
\* slice is an object of its own ("fatia") and lote is a copy of it; the
\* caller's table after the batch and the batch.
LoteProcessado(df, inicio, tam, items) ==
    LET lote_ref == copy("fatia")
        mem0 == [o \in {"data_df", "fatia", lote_ref} |->
                    IF o = "data_df" THEN df ELSE ILoc(df, inicio, inicio + tam)]
        mem  == [mem0 EXCEPT ![lote_ref] = ProcessarAtributos(@, items)]
    IN  [data_df |-> mem["data_df"], lote |-> mem[lote_ref]]

\* progresso as the exact fraction num/den; 1.0 is Um
Um == [num |-> 1, den |-> 1]

\* min((i + len(lote)) / total_linhas, 1.0)
Progresso(feitas, total_linhas) ==
    IF feitas >= total_linhas THEN Um ELSE [num |-> feitas, den |-> total_linhas]

\* progresso <= 1.0
MenorOuIgualAUm(p) == p.num <= p.den

\* progresso < 1.0
MenorQueUm(p) == p.num < p.den

----------------------------------------------------------------------------
(* processar_dados, relatorios_app.py *)

\* [p.strip().lower() for p in patterns_str.split(',')]
patterns_rel(cell) ==
    LET frags == split(str(cell), ",")
    IN  [k \in 1..Len(frags) |-> lower(strip(frags[k]))]

\* AnyPatternRel without the test that the pattern is not empty.
RECURSIVE AnyPatternRelSemVazio(_, _)
AnyPatternRelSemVazio(pats, descricao) ==
    IF pats = <<>> THEN FALSE
    ELSE IF /\ contains(Head(pats), descricao)
            /\ search(Head(pats), descricao)
         THEN TRUE
    ELSE AnyPatternRelSemVazio(Tail(pats), descricao)

\* for pattern in patterns: if pattern and pattern in descricao: if re.search: ... break
RECURSIVE AnyPatternRel(_, _)
AnyPatternRel(pats, descricao) ==
    IF pats = <<>> THEN FALSE
    ELSE IF /\ Head(pats) # <<>>
            /\ contains(Head(pats), descricao)
            /\ search(Head(pats), descricao)
         THEN TRUE
    ELSE AnyPatternRel(Tail(pats), descricao)

\* for _, config_row in group.iterrows(): ...
RECURSIVE MatchedVariationsRel(_, _, _, _)
MatchedVariationsRel(cfg, group, descricao, matched) ==
    IF group = <<>> THEN matched
    ELSE LET config_row == Head(group)
             variation  == str(config_row[ColIndex(cfg, Variacao)])
             pats       == patterns_rel(config_row[ColIndex(cfg, Padrao)])
             m == IF AnyPatternRel(pats, descricao) /\ variation \notin Range(matched)
                  THEN Append(matched, variation)
                  ELSE matched
         IN  MatchedVariationsRel(cfg, Tail(group), descricao, m)

CelulaRel(cfg, group, valor) ==
    LET matched == MatchedVariationsRel(cfg, group, lower(str(valor)), <<>>)
    IN  IF matched # <<>> THEN join(VirgulaEspaco, matched) ELSE <<>>

\* for attr, group in config_groups: ... result_df[attr] = variations_list
RECURSIVE AtribuirColunasRel(_, _, _, _)
AtribuirColunasRel(mem, result_ref, keys, cfg) ==
    IF keys = <<>> THEN mem
    ELSE AtribuirColunasRel(
            [mem EXCEPT ![result_ref] =
                SetColumn(@, Head(keys),
                          [r \in 1..Len(mem["data_df"].rows) |->
                              CelulaRel(cfg, Group(cfg, Head(keys)),
                                        Cell(mem["data_df"], r, Descricao))])],
            result_ref, Tail(keys), cfg)

\* The body of processar_dados after its two column checks, from
\* result_df = data_df.copy() on: the caller's table after it and the table
\* it returns.
ChamadaRel(df, cfg) ==
    LET result_ref == copy("data_df")
        mem == AtribuirColunasRel([o \in {"data_df", result_ref} |-> df],
                                  result_ref, GroupKeys(cfg), cfg)
    IN  [data_df |-> mem["data_df"], retorno |-> mem[result_ref]]

processar_dados(df, cfg) == ChamadaRel(df, cfg).retorno

----------------------------------------------------------------------------
(* Input tables of the runs explored *)

T_Voltagem == <<"V","o","l","t","a","g","e","m">>
T_Cor == <<"C","o","r">>
T_Marca == <<"M","a","r","c","a">>
T_Acme == <<"A","c","m","e">>
T_110v == <<"1","1","0","v">>
T_220v == <<"2","2","0","v">>
T_Bivolt == <<"B","i","v","o","l","t">>
T_Amarelo == <<"A","m","a","r","e","l","o">>
T_Branca == <<"B","r","a","n","c","a">>
T_Vazio == <<"V","a","z","i","o">>
T_x == <<"x">>
P_110 == <<"1","1","0",",","1","1","0","v",",","1","2","7">>
P_220 == <<"2","2","0",",","2","2","0","v",",","2","2","7">>
P_bivolt == <<"b","i","v","o","l","t",",","b","i","v">>
P_amarelo == <<"a","m","a","r","e","l","o",",","y","e","l","l","o","w">>
P_branca == <<"b","r","a","n","c","a",",","w","h","i","t","e">>
P_127_nan == <<" ","1","2","7"," ",",","n","a","n",",","N","A",",">>
P_virgulas == <<",",",">>
P_led == <<"l","e","d">>
P_LED == <<"L","E","D">>
D_teto == <<"1","1","0"," ","a","m","a","r","e","l","o"," ","b","i","v">>
D_led127 == <<"L","E","D"," ","1","2","7">>
D_fornecedor == <<"f","o","r","n","e","c","e","d","o","r">>
D_lampada == <<"L","â","m","p","a","d","a"," ","L","E","D"," ","1","2","W">>

MaxLinhas   == 2   \* rows of a data table
MaxRegras   == 2   \* rows of a configuration table drawn from RegrasPool
MaxLote     == 2   \* batch sizes 1..MaxLote
MaxDescLen  == 3   \* length of the descriptions of DescsMatch
MaxPadraoLen == 2  \* length of the pattern cells of PadroesMatch

DataCols   == <<ID, Descricao, T_Marca>>
ConfigCols == <<Atributo, Variacao, Padrao>>

\* The k-th data row: ID "100", "200", ...; a description; a pass-through cell.
Linha(k, d) == <<<<DigitChars[k + 1], "0", "0">>, d, T_Acme>>

DescPool == {D_teto, D_led127, NaN}

DataTables ==
    UNION {{[cols |-> DataCols, rows |-> [k \in 1..n |-> Linha(k, ds[k])]] :
              ds \in [1..n -> DescPool]} : n \in 0..MaxLinhas}

R_110    == <<T_Voltagem, T_110v, P_110>>
R_220    == <<T_Voltagem, T_220v, P_220>>
R_bivolt == <<T_Voltagem, T_Bivolt, P_bivolt>>
R_amarelo == <<T_Cor, T_Amarelo, P_amarelo>>
R_branca == <<T_Cor, T_Branca, P_branca>>
R_127    == <<T_Voltagem, T_110v, P_127_nan>>   \* same variation as R_110
R_vazio  == <<T_Cor, T_Vazio, P_virgulas>>      \* no non-empty fragment

RegrasPool == {R_110, R_bivolt, R_amarelo, R_127, R_vazio}

Config(rows) == [cols |-> ConfigCols, rows |-> rows]

\* get_config_template(), relatorios_app.py
ConfigTemplate == Config(<<R_110, R_220, R_bivolt, R_amarelo, R_branca>>)

\* The template, configurations whose Atributo is the label of a data column
\* or is null, and one with an empty pattern cell.
ConfigExtras ==
    {ConfigTemplate,
     Config(<<<<ID, T_x, P_led>>>>),
     Config(<<<<Descricao, T_x, P_led>>, R_110>>),
     Config(<<<<NaN, T_x, P_led>>, R_amarelo>>),
     Config(<<R_amarelo, <<T_Cor, T_Vazio, <<>>>>>>)}

ConfigTables ==
    UNION {{Config(rs) : rs \in [1..n -> RegrasPool]} : n \in 0..MaxRegras}
    \cup ConfigExtras

\* Tables lacking a required column.
DataInvalidas ==
    {[cols |-> <<ID, T_Marca>>, rows |-> << <<<<"1","0","0">>, T_Acme>> >>],
     [cols |-> <<Descricao>>,   rows |-> << <<D_teto>> >>]}

ConfigInvalidas ==
    {[cols |-> <<Atributo, Variacao>>, rows |-> << <<T_Voltagem, T_110v>> >>],
     [cols |-> <<Atributo, Padrao>>,   rows |-> << <<T_Voltagem, P_110>> >>],
     [cols |-> <<Variacao, Padrao>>,   rows |-> << <<T_110v, P_110>> >>]}

DataValida   == [cols |-> DataCols, rows |-> <<Linha(1, D_teto)>>]
ConfigValida == Config(<<R_110>>)

Entradas ==
    (DataTables \X ConfigTables)
    \cup (DataInvalidas \X (ConfigInvalidas \cup {ConfigValida}))
    \cup ({DataValida} \X ConfigInvalidas)

\* One record and one rule, over every short description and pattern cell.
AlfabetoDesc   == {"a", "A", "b", " "}
AlfabetoPadrao == {"a", "A", "b", " ", ","}

Strings(alfabeto, n) == UNION {[1..k -> alfabeto] : k \in 0..n}

DescsMatch   == Strings(AlfabetoDesc, MaxDescLen) \cup {D_fornecedor, D_lampada, NaN, NA}
PadroesMatch == Strings(AlfabetoPadrao, MaxPadraoLen) \cup {P_led, P_LED, P_127_nan}

EntradasMatch ==
    {<<[cols |-> DataCols, rows |-> <<Linha(1, d)>>], Config(<<<<T_Cor, T_x, p>>>>)>> :
        d \in DescsMatch, p \in PadroesMatch}

Modos == {"direto", "lotes", "relatorios"}

----------------------------------------------------------------------------
(* The runs *)

\* The page variables of a run in which the two tables are given in full.
InitPaginaDoMotor ==
    /\ render_plan = "local"
    /\ len_data_df = Len(data_df.rows)
    /\ tem_atributos = (HasColumn(config_df, Atributo) /\ GroupKeys(config_df) # <<>>)
    /\ widgets = [tentar_mesmo_assim |-> FALSE, usar_lotes |-> FALSE,
                  tamanho_lote |-> tamanho_lote]
    /\ usar_lotes = FALSE
    /\ chamadas = <<>>
    /\ len_resultados = 0
    /\ rendido = <<>>
    /\ len_parciais = 0
    /\ len_result_df = 0 - 1
    /\ partes = <<>>

InitRun ==
    /\ InitPaginaDoMotor
    /\ pc = "inicio"
    /\ erro = ""
    /\ config_dict = <<>>
    /\ resultados = <<>>
    /\ i = 0
    /\ timeout = FALSE
    /\ rendimentos = <<>>
    /\ resultados_parciais = <<>>
    /\ result_df = NoTable
    /\ execucao = 1
    /\ result_anterior = NoTable

InitCom(entradas) ==
    /\ \E e \in entradas : data_df = e[1] /\ config_df = e[2]
    /\ modo \in Modos
    /\ tamanho_lote \in 1..MaxLote
    /\ modo # "lotes" => tamanho_lote = MaxLote
    /\ InitRun

Init == InitCom(Entradas)

InitMatch == InitCom(EntradasMatch)

total_linhas == Len(data_df.rows)

\* app.py: the run stops with an exception
Falha(tipo) ==
    /\ pc' = "erro"
    /\ erro' = tipo
    /\ UNCHANGED <<data_df, config_dict, resultados, i, timeout, rendimentos,
                   resultados_parciais, result_df>>

\* app.py 440-452: the column validation of the page, st.stop() on failure
ValidarColunas ==
    /\ pc = "inicio"
    /\ modo \in {"direto", "lotes"}
    /\ IF /\ ColunasPresentes(data_df, required_data_cols)
          /\ ColunasPresentes(config_df, required_config_cols)
       THEN pc' = "validado" /\ erro' = erro
       ELSE pc' = "parado" /\ erro' = "st.stop"
    /\ UNCHANGED <<data_df, config_df, modo, tamanho_lote, config_dict, resultados,
                   i, timeout, rendimentos, resultados_parciais, result_df,
                   execucao, result_anterior>>
    /\ UNCHANGED pagina

\* app.py 613: result_df = processamento_direto_otimizado(data_df, config_df)
ProcessamentoDireto ==
    /\ pc = "validado"
    /\ modo = "direto"
    /\ IF KeyErrorConfig(config_df) \/ KeyErrorData(data_df, config_df)
       THEN Falha("KeyError")
       ELSE LET chamada == ChamadaDireto(data_df, config_df)
            IN  /\ config_dict' = Compilar(config_df)
                /\ result_df' = chamada.retorno
                /\ data_df' = chamada.data_df
                /\ pc' = "concluido"
                /\ UNCHANGED <<erro, resultados, i, timeout, rendimentos,
                               resultados_parciais>>
    /\ UNCHANGED <<config_df, modo, tamanho_lote, execucao, result_anterior>>
    /\ UNCHANGED pagina

\* app.py 198-217 and 580-583: the generator runs up to its batch loop
IniciarLotes ==
    /\ pc = "validado"
    /\ modo = "lotes"
    /\ IF KeyErrorConfig(config_df)
       THEN Falha("KeyError")
       ELSE /\ config_dict' = Compilar(config_df)
            /\ resultados' = <<>>
            /\ resultados_parciais' = <<>>
            /\ i' = 0
            /\ pc' = "laco"
            /\ UNCHANGED <<data_df, erro, timeout, rendimentos, result_df>>
    /\ UNCHANGED <<config_df, modo, tamanho_lote, execucao, result_anterior>>
    /\ UNCHANGED pagina

\* app.py 221-223: the timeout check of an iteration fires. time.time() is
\* the wall clock, so whether it fires is decided by the time the run has
\* taken so far, not by the two tables.
TimeoutAtingido ==
    /\ pc = "laco"
    /\ i < total_linhas
    /\ timeout' = TRUE
    /\ pc' = "final"
    /\ UNCHANGED <<data_df, config_df, modo, tamanho_lote, erro, config_dict,
                   resultados, i, rendimentos, resultados_parciais, result_df,
                   execucao, result_anterior>>
    /\ UNCHANGED pagina

\* app.py 225-249: one pass of the generator, from the slice to its yield,
\* where it is suspended (i stays at the start of the batch)
ProcessarLote ==
    /\ pc = "laco"
    /\ i < total_linhas
    /\ IF KeyErrorData(data_df, config_df)
       THEN Falha("KeyError")
       ELSE LET processado == LoteProcessado(data_df, i, tamanho_lote, config_dict)
                lote == processado.lote
                progresso == Progresso(i + Len(lote.rows), total_linhas)
            IN  /\ data_df' = processado.data_df
                /\ resultados' = Append(resultados, lote)
                /\ rendimentos' = Append(rendimentos, [progresso |-> progresso, tabela |-> lote])
                /\ pc' = "rendido"
                /\ UNCHANGED <<erro, config_dict, timeout, i, resultados_parciais,
                               result_df>>
    /\ UNCHANGED <<config_df, modo, tamanho_lote, execucao, result_anterior>>
    /\ UNCHANGED pagina

\* app.py 251-256: the loop is over or was left by break; the generator is
\* suspended at its last yield
RendimentoFinal ==
    /\ \/ pc = "final"
       \/ pc = "laco" /\ i >= total_linhas
    /\ LET final == IF resultados # <<>> THEN Concat(resultados) ELSE EmptyDataFrame
       IN  rendimentos' = Append(rendimentos, [progresso |-> Um, tabela |-> final])
    /\ pc' = "rendido_final"
    /\ UNCHANGED <<data_df, config_df, modo, tamanho_lote, erro, config_dict,
                   resultados, i, timeout, resultados_parciais, result_df,
                   execucao, result_anterior>>
    /\ UNCHANGED pagina

\* app.py 584-601: the consumer's loop body for the pair just yielded; then
\* the for at 583 resumes the generator, which goes to the head of its loop
\* with the next i (219), or ends after its last yield, and the consumer
\* leaves its loop (603)
ConsumirRendimento ==
    /\ pc \in {"rendido", "rendido_final"}
    /\ LET ultimo == rendimentos[Len(rendimentos)]
       IN  IF MenorQueUm(ultimo.progresso)
           THEN /\ resultados_parciais' = Append(resultados_parciais, ultimo.tabela)
                /\ result_df' = result_df
           ELSE /\ resultados_parciais' = resultados_parciais
                /\ result_df' = ultimo.tabela
    /\ IF pc = "rendido"
       THEN pc' = "laco" /\ i' = i + tamanho_lote
       ELSE pc' = "concluido" /\ i' = i
    /\ UNCHANGED <<data_df, config_df, modo, tamanho_lote, erro, config_dict,
                   resultados, timeout, rendimentos, execucao, result_anterior>>
    /\ UNCHANGED pagina

\* app.py 584-596: a st.* call of the consumer's body raises streamlit's
\* script-control exception (a stop or rerun request), which except Exception
\* (712) does not catch: the run ends with the generator suspended
InterrupcaoDoScript ==
    /\ pc \in {"rendido", "rendido_final"}
    /\ pc' = "interrompido"
    /\ erro' = "ScriptControlException"
    /\ UNCHANGED <<data_df, config_df, modo, tamanho_lote, config_dict, resultados,
                   i, timeout, rendimentos, resultados_parciais, result_df,
                   execucao, result_anterior>>
    /\ UNCHANGED pagina

\* A column lookup of processar_dados raises KeyError.
KeyErrorRel(df, cfg) ==
    \/ ~HasColumn(cfg, Atributo)
    \/ /\ GroupKeys(cfg) # <<>>
       /\ df.rows # <<>>
       /\ ~(HasColumn(df, Descricao) /\ HasColumn(cfg, Padrao) /\ HasColumn(cfg, Variacao))

\* relatorios_app.py 5-54: the whole call processar_dados(data_df, config_df)
ProcessarDados ==
    /\ pc = "inicio"
    /\ modo = "relatorios"
    /\ IF ~ColunasPresentes(data_df, required_data_cols)
       THEN Falha("ValueError")
       ELSE IF ~ColunasPresentes(config_df, required_config_cols)
       THEN Falha("ValueError")
       ELSE IF KeyErrorRel(data_df, config_df)
       THEN Falha("KeyError")
       ELSE LET chamada == ChamadaRel(data_df, config_df)
            IN  /\ result_df' = chamada.retorno
                /\ data_df' = chamada.data_df
                /\ pc' = "concluido"
                /\ UNCHANGED <<erro, config_dict, resultados, i, timeout, rendimentos,
                               resultados_parciais>>
    /\ UNCHANGED <<config_df, modo, tamanho_lote, execucao, result_anterior>>
    /\ UNCHANGED pagina

Next ==
    \/ ValidarColunas
    \/ ProcessamentoDireto
    \/ IniciarLotes
    \/ TimeoutAtingido
    \/ ProcessarLote
    \/ RendimentoFinal
    \/ ConsumirRendimento
    \/ InterrupcaoDoScript
    \/ ProcessarDados

Spec == Init /\ [][Next]_vars

MaxExecucoes == 2   \* runs over the same two tables

\* The page is run again on the same uploaded tables with the same mode and
\* batch size (processar_dados is called again with the same arguments); the
\* finished run's table is kept for comparison.
NovaExecucao ==
    /\ pc = "concluido"
    /\ execucao < MaxExecucoes
    /\ execucao' = execucao + 1
    /\ result_anterior' = result_df
    /\ pc' = "inicio"
    /\ erro' = ""
    /\ config_dict' = <<>>
    /\ resultados' = <<>>
    /\ i' = 0
    /\ timeout' = FALSE
    /\ rendimentos' = <<>>
    /\ resultados_parciais' = <<>>
    /\ result_df' = NoTable
    /\ UNCHANGED <<data_df, config_df, modo, tamanho_lote>>
    /\ UNCHANGED pagina

NextReexec == Next \/ NovaExecucao

SpecReexec == Init /\ [][NextReexec]_vars

SpecMatch == InitMatch /\ [][Next]_vars

\* The runs of both families of inputs.
InitTodas == InitCom(Entradas \cup EntradasMatch)

SpecTodas == InitTodas /\ [][Next]_vars

----------------------------------------------------------------------------
(* The page around the processing functions, app.py 427-700. Here a table  *)
(* is known by its number of rows only: the row-count gate, the choice of  *)
(* the processing function and the download parts depend on nothing else.  *)

Planos == {"local", "free", "paid"}

\* app.py 61-82: the limits of each plan
AVISO_LIMITE_RENDER(plan) ==
    CASE plan = "paid" -> 100000 [] plan = "free" -> 50000 [] OTHER -> 150000

LIMITE_CRITICO_RENDER(plan) ==
    CASE plan = "paid" -> 200000 [] plan = "free" -> 80000 [] OTHER -> 300000

TAMANHO_LOTE_OTIMO(plan) ==
    CASE plan = "paid" -> 2000 [] plan = "free" -> 500 [] OTHER -> 3000

\* app.py 531-535: the choices of the selectbox "Tamanho do lote"
OpcoesLote == {500, 1000, 2000, 3000, 5000}

LinhasLotesAutomatico == 5000    \* app.py 519: if total_linhas > 5000
LinhasMinimasLotes    == 1000    \* app.py 577: usar_lotes and total_linhas > 1000
LinhasPorParte        == 50000   \* app.py 668-673

\* The gate stops only on the free plan.
PararSoNoPlanoFree(n, plan, tentar) ==
    n > LIMITE_CRITICO_RENDER(plan) /\ ~tentar /\ plan = "free"

\* app.py 481-507: the page reaches st.stop() at the critical limit
PararNoLimite(n, plan, tentar) ==
    n > LIMITE_CRITICO_RENDER(plan) /\ ~tentar

\* app.py 670-674: partes = (len(result_df) // 50000) + 1, and for each i in
\* range(partes) the rows iloc[inicio:fim], inicio = i * 50000,
\* fim = min((i + 1) * 50000, len(result_df))
PartesDe(n) ==
    [k \in 1..((n \div LinhasPorParte) + 1) |->
        [inicio |-> (k - 1) * LinhasPorParte,
         fim    |-> Min(k * LinhasPorParte, n)]]

MaxDesvio == 1   \* row counts within MaxDesvio of each threshold of the page

Limiares ==
    {0, LinhasMinimasLotes, LinhasLotesAutomatico, LinhasPorParte}
    \cup {AVISO_LIMITE_RENDER(p) : p \in Planos}
    \cup {LIMITE_CRITICO_RENDER(p) : p \in Planos}

LinhasPagina ==
    {n \in {l + d : l \in Limiares, d \in (0 - MaxDesvio)..MaxDesvio} : n >= 0}

\* A table known by its length only.
TabelaAbstrata == [cols |-> <<"len">>, rows |-> <<>>]

motor == <<data_df, config_df, config_dict, resultados, i, rendimentos,
           resultados_parciais, result_df, execucao, result_anterior>>

\* The values the widgets can have: a widget the script does not reach has
\* no value, written here as its default. "Tentar processar mesmo assim" is
\* shown above the critical limit (499), "Usar processamento em lotes" up to
\* 5000 rows (523), "Tamanho do lote" when usar_lotes holds (531).
WidgetsDe(n, plan) ==
    {w \in [tentar_mesmo_assim : BOOLEAN, usar_lotes : BOOLEAN,
             tamanho_lote : OpcoesLote] :
        /\ n <= LIMITE_CRITICO_RENDER(plan) => ~w.tentar_mesmo_assim
        /\ n > LinhasLotesAutomatico => ~w.usar_lotes
        /\ (n <= LinhasLotesAutomatico /\ ~w.usar_lotes) =>
              w.tamanho_lote = TAMANHO_LOTE_OTIMO(plan)}

\* app.py 427-478: both files were read and have the required columns
InitPagina ==
    /\ render_plan \in Planos
    /\ len_data_df \in LinhasPagina
    /\ tem_atributos \in BOOLEAN
    /\ widgets \in WidgetsDe(len_data_df, render_plan)
    /\ usar_lotes = FALSE
    /\ chamadas = <<>>
    /\ len_resultados = 0
    /\ rendido = <<>>
    /\ len_parciais = 0
    /\ len_result_df = 0 - 1
    /\ partes = <<>>
    /\ pc = "estatisticas"
    /\ erro = ""
    /\ modo = "nenhum"
    /\ tamanho_lote = 0
    /\ timeout = FALSE
    /\ data_df = TabelaAbstrata /\ config_df = TabelaAbstrata
    /\ config_dict = <<>> /\ resultados = <<>> /\ i = 0 /\ rendimentos = <<>>
    /\ resultados_parciais = <<>> /\ result_df = NoTable
    /\ execucao = 1 /\ result_anterior = NoTable

\* app.py 481-512: the critical-limit gate
LimiteCritico ==
    /\ pc = "estatisticas"
    /\ IF PararNoLimite(len_data_df, render_plan, widgets.tentar_mesmo_assim)
       THEN pc' = "parado" /\ erro' = "st.stop"
       ELSE pc' = "configuracoes" /\ erro' = erro
    /\ UNCHANGED <<motor, pagina, modo, tamanho_lote, timeout>>

\* app.py 515-538: usar_lotes and tamanho_lote
Configuracoes ==
    /\ pc = "configuracoes"
    /\ usar_lotes' = IF len_data_df > LinhasLotesAutomatico
                     THEN TRUE ELSE widgets.usar_lotes
    /\ tamanho_lote' = IF usar_lotes' THEN widgets.tamanho_lote
                       ELSE TAMANHO_LOTE_OTIMO(render_plan)
    /\ pc' = "processando"
    /\ UNCHANGED <<motor, render_plan, len_data_df, tem_atributos, widgets,
                   chamadas, len_resultados, rendido, len_parciais,
                   len_result_df, partes, modo, erro, timeout>>

\* app.py 577-583 and 198-219: the batch branch calls the generator, which
\* runs to the head of its loop
ChamarLotes ==
    /\ pc = "processando"
    /\ usar_lotes /\ len_data_df > LinhasMinimasLotes
    /\ modo' = "lotes"
    /\ chamadas' = Append(chamadas, "processar_em_lotes_otimizado")
    /\ len_resultados' = 0
    /\ len_parciais' = 0
    /\ pc' = "laco"
    /\ UNCHANGED <<motor, render_plan, len_data_df, tem_atributos, widgets,
                   usar_lotes, rendido, len_result_df, partes, tamanho_lote,
                   erro, timeout>>

\* app.py 221-223: the timeout check fires
PaginaTimeout ==
    /\ pc = "laco"
    /\ i < len_data_df
    /\ timeout' = TRUE
    /\ pc' = "final"
    /\ UNCHANGED <<data_df, config_df, config_dict, resultados, i, rendimentos,
                   resultados_parciais, result_df, execucao, result_anterior,
                   pagina, modo, tamanho_lote, erro>>

\* app.py 225-249: one pass of the generator up to its yield
PaginaLote ==
    /\ pc = "laco"
    /\ i < len_data_df
    /\ LET len_lote == Min(tamanho_lote, len_data_df - i)
       IN  rendido' = [progresso |-> Progresso(i + len_lote, len_data_df),
                       linhas |-> len_lote]
    /\ len_resultados' = len_resultados + 1
    /\ pc' = "rendido"
    /\ UNCHANGED <<motor, render_plan, len_data_df, tem_atributos, widgets,
                   usar_lotes, chamadas, len_parciais, len_result_df, partes,
                   modo, tamanho_lote, erro, timeout>>

\* app.py 251-256: the last yield, of the concatenation of the batches done
PaginaRendimentoFinal ==
    /\ \/ pc = "final"
       \/ pc = "laco" /\ i >= len_data_df
    /\ rendido' = [progresso |-> Um, linhas |-> Min(i, len_data_df)]
    /\ pc' = "rendido_final"
    /\ UNCHANGED <<motor, render_plan, len_data_df, tem_atributos, widgets,
                   usar_lotes, chamadas, len_resultados, len_parciais,
                   len_result_df, partes, modo, tamanho_lote, erro, timeout>>

\* app.py 584-603: the consumer's loop body for the pair just yielded, and the
\* generator resumed to the head of its loop or ended
PaginaConsumir ==
    /\ pc \in {"rendido", "rendido_final"}
    /\ IF MenorQueUm(rendido.progresso)
       THEN len_parciais' = len_parciais + 1 /\ len_result_df' = len_result_df
       ELSE len_parciais' = len_parciais /\ len_result_df' = rendido.linhas
    /\ IF pc = "rendido"
       THEN pc' = "laco" /\ i' = i + tamanho_lote
       ELSE pc' = "concluido" /\ i' = i
    /\ UNCHANGED <<data_df, config_df, config_dict, resultados, rendimentos,
                   resultados_parciais, result_df, execucao, result_anterior,
                   render_plan, len_data_df, tem_atributos, widgets, usar_lotes,
                   chamadas, len_resultados, rendido, partes, modo,
                   tamanho_lote, erro, timeout>>

\* app.py 584-596: a st.* call of the consumer's body raises streamlit's
\* script-control exception
PaginaInterrupcao ==
    /\ pc \in {"rendido", "rendido_final"}
    /\ pc' = "interrompido"
    /\ erro' = "ScriptControlException"
    /\ UNCHANGED <<motor, pagina, modo, tamanho_lote, timeout>>

\* app.py 604-616: the direct branch
DespachoDireto ==
    /\ pc = "processando"
    /\ ~(usar_lotes /\ len_data_df > LinhasMinimasLotes)
    /\ modo' = "direto"
    /\ chamadas' = Append(chamadas, "processamento_direto_otimizado")
    /\ len_result_df' = len_data_df
    /\ pc' = "concluido"
    /\ UNCHANGED <<motor, render_plan, len_data_df, tem_atributos, widgets,
                   usar_lotes, len_resultados, rendido, len_parciais, partes,
                   tamanho_lote, erro, timeout>>

\* result_df[attr].str raises AttributeError (640-642): the attribute column
\* of a direct result without rows was assigned an empty list (300), which
\* makes a float64 column; with a row or more the column holds text, and the
\* empty table of a batch run cut before its first batch (256) has no
\* attribute column.
EstatisticasFalham(m, len_result, atributos) ==
    m = "direto" /\ len_result = 0 /\ atributos

\* app.py 618-663: the result sample and the statistics; an exception is
\* caught at 712 and the download section is not reached
ResultadoEstatisticas ==
    /\ pc = "concluido"
    /\ IF EstatisticasFalham(modo, len_result_df, tem_atributos)
       THEN pc' = "erro" /\ erro' = "AttributeError"
       ELSE pc' = "download" /\ erro' = erro
    /\ UNCHANGED <<motor, pagina, modo, tamanho_lote, timeout>>

\* app.py 668-684: the download in parts
DownloadEmPartes ==
    /\ pc = "download"
    /\ len_result_df > LinhasPorParte
    /\ partes' = PartesDe(len_result_df)
    /\ pc' = "fim"
    /\ UNCHANGED <<motor, render_plan, len_data_df, tem_atributos, widgets,
                   usar_lotes, chamadas, len_resultados, rendido, len_parciais,
                   len_result_df, modo, tamanho_lote, erro, timeout>>

\* app.py 685-695: the single download
DownloadCompleto ==
    /\ pc = "download"
    /\ ~(len_result_df > LinhasPorParte)
    /\ partes' = <<>>
    /\ pc' = "fim"
    /\ UNCHANGED <<motor, render_plan, len_data_df, tem_atributos, widgets,
                   usar_lotes, chamadas, len_resultados, rendido, len_parciais,
                   len_result_df, modo, tamanho_lote, erro, timeout>>

NextPagina ==
    \/ LimiteCritico
    \/ Configuracoes
    \/ ChamarLotes
    \/ PaginaTimeout
    \/ PaginaLote
    \/ PaginaRendimentoFinal
    \/ PaginaConsumir
    \/ PaginaInterrupcao
    \/ DespachoDireto
    \/ ResultadoEstatisticas
    \/ DownloadEmPartes
    \/ DownloadCompleto

SpecPagina == InitPagina /\ [][NextPagina]_vars

----------------------------------------------------------------------------
(* The worked example: get_data_template(), get_config_template() *)

D_ventilador == <<"V","e","n","t","i","l","a","d","o","r"," ","d","e"," ",
                  "t","e","t","o"," ","1","1","0"," ","a","m","a","r","e","l","o",
                  " ","b","i","v">>
D_luminaria  == <<"L","u","m","i","n","á","r","i","a"," ","L","E","D"," ",
                  "2","2","0","v"," ","b","r","a","n","c","a">>

ID_1414 == <<"1","4","1","4">>
ID_2525 == <<"2","5","2","5">>

L_ventilador == <<ID_1414, D_ventilador>>
L_luminaria  == <<ID_2525, D_luminaria>>

\* The three rules of the first scenario, then the two added by the second.
RegrasExemplo == <<R_110, R_bivolt, R_amarelo, R_branca, R_220>>

\* Data tables of up to MaxLinhas of the two template records, in any order.
DataExemplos ==
    UNION {{[cols |-> <<ID, Descricao>>, rows |-> ls] :
              ls \in [1..n -> {L_ventilador, L_luminaria}]} : n \in 0..MaxLinhas}

\* The example rules taken from the first on, and the template of the code.
ConfigExemplos ==
    {Config(SubSeq(RegrasExemplo, 1, n)) : n \in 0..Len(RegrasExemplo)}
    \cup {ConfigTemplate}

InitExemplos == InitCom(DataExemplos \X ConfigExemplos)

SpecExemplos == InitExemplos /\ [][Next]_vars

----------------------------------------------------------------------------
(* What the properties speak of, stated without the operators of the code *)

Letras == Range(LowerCase) \cup Range(UpperCase)

\* The same character, or the two cases of one letter.
MesmaLetra(x, y) ==
    \/ x = y
    \/ \E n \in DOMAIN LowerCase : {x, y} = {LowerCase[n], UpperCase[n]}

\* Position k of d holds a letter, a digit or an underscore.
EhPalavra(d, k) ==
    /\ k \in 1..Len(d)
    /\ d[k] \in Letras \cup Range(DigitChars) \cup {"_"}

Fronteira(d, k) == EhPalavra(d, k - 1) # EhPalavra(d, k)

\* p occurs in d, letter case aside, between two word boundaries.
Ocorre(p, d) ==
    \E k \in 1..(Len(d) - Len(p) + 1) :
        /\ \A m \in 1..Len(p) : MesmaLetra(p[m], d[k + m - 1])
        /\ Fronteira(d, k)
        /\ Fronteira(d, k + Len(p))

Branco(c) == c \in {" ", "\t", "\n"}

\* The non-empty trimmed fragments of a comma-separated cell text.
FragmentosDe(s) ==
    {SubSeq(s, a, b) : <<a, b>> \in
        {ab \in (1..Len(s)) \X (1..Len(s)) :
            /\ ab[1] <= ab[2]
            /\ ~Branco(s[ab[1]]) /\ ~Branco(s[ab[2]])
            /\ \A k \in ab[1]..ab[2] : s[k] # ","
            /\ \E lo \in 0..(ab[1] - 1) :
                  /\ lo = 0 \/ s[lo] = ","
                  /\ \A k \in (lo + 1)..(ab[1] - 1) : Branco(s[k])
            /\ \E hi \in (ab[2] + 1)..(Len(s) + 1) :
                  /\ hi = Len(s) + 1 \/ s[hi] = ","
                  /\ \A k \in (ab[2] + 1)..(hi - 1) : Branco(s[k])}}

\* The text a cell value is read as.
Texto(v) ==
    CASE v = NaN -> <<"n","a","n">>
      [] v = NA  -> <<"<","N","A",">">>
      [] OTHER   -> v

CelulaConfig(n, c) ==
    config_df.rows[n][CHOOSE k \in 1..Len(config_df.cols) : config_df.cols[k] = c]

CelulaDados(r, c) ==
    data_df.rows[r][CHOOSE k \in 1..Len(data_df.cols) : data_df.cols[k] = c]

CelulaResultado(r, c) ==
    result_df.rows[r][CHOOSE k \in 1..Len(result_df.cols) : result_df.cols[k] = c]

EntradasValidas ==
    /\ {ID, Descricao} \subseteq Range(data_df.cols)
    /\ {Atributo, Variacao, Padrao} \subseteq Range(config_df.cols)

\* The distinct non-null Atributo values of the configuration.
AtributosDe ==
    {CelulaConfig(n, Atributo) : n \in 1..Len(config_df.rows)} \ {NaN, NA}

\* Rule n (a configuration row) matches the description value v.
RegraCasa(n, v) ==
    \E f \in FragmentosDe(Texto(CelulaConfig(n, Padrao))) : Ocorre(f, Texto(v))

\* The rows of attribute a that match v, in configuration order.
RECURSIVE CasamDesde(_, _, _)
CasamDesde(a, v, n) ==
    IF n > Len(config_df.rows) THEN <<>>
    ELSE IF CelulaConfig(n, Atributo) = a /\ RegraCasa(n, v)
         THEN <<Texto(CelulaConfig(n, Variacao))>> \o CasamDesde(a, v, n + 1)
         ELSE CasamDesde(a, v, n + 1)

\* s with every element kept at its first occurrence only.
RECURSIVE Primeiros(_, _)
Primeiros(s, k) ==
    IF k = 0 THEN <<>>
    ELSE IF \E m \in 1..(k - 1) : s[m] = s[k]
         THEN Primeiros(s, k - 1)
         ELSE Append(Primeiros(s, k - 1), s[k])

\* list[1], ", ", list[2], ", ", ... up to list[k]
RECURSIVE Junta(_, _)
Junta(lista, k) ==
    IF k = 0 THEN <<>>
    ELSE IF k = 1 THEN lista[1]
    ELSE Junta(lista, k - 1) \o <<",", " ">> \o lista[k]

\* The cell the specification gives attribute a for the description value v.
Esperada(a, v) ==
    LET casam == CasamDesde(a, v, 1)
        distintos == Primeiros(casam, Len(casam))
    IN  Junta(distintos, Len(distintos))

----------------------------------------------------------------------------
(* C1 *)

\* One record with a description text, one rule whose pattern cell is a
\* single pattern: no comma, no blank at either end, not empty.
UmPadrao ==
    /\ EntradasValidas
    /\ Len(data_df.rows) = 1 /\ Len(config_df.rows) = 1
    /\ CelulaDados(1, Descricao) \notin {NaN, NA}
    /\ CelulaConfig(1, Padrao) \notin {NaN, NA, <<>>}
    /\ CelulaConfig(1, Atributo) \notin {NaN, NA} \cup Range(data_df.cols)
    /\ LET p == CelulaConfig(1, Padrao)
       IN  /\ \A k \in 1..Len(p) : p[k] # ","
           /\ ~Branco(p[1]) /\ ~Branco(p[Len(p)])

\* C1: a pattern matches a description exactly when it occurs in it, letter
\* case aside, with a word boundary right before and right after the
\* occurrence: every run over one record and one single-pattern rule ends with
\* the rule's variation in the cell when the pattern so occurs and with the
\* empty cell when it does not; "led" does not match "fornecedor" and matches
\* "Lâmpada LED 12W", in either letter case.
C1_WordBoundaryMatch ==
    (pc = "concluido" /\ UmPadrao /\ Len(result_df.rows) = 1) =>
        LET d == CelulaDados(1, Descricao)
            p == CelulaConfig(1, Padrao)
            cel == CelulaResultado(1, CelulaConfig(1, Atributo))
        IN  /\ cel = IF Ocorre(p, d) THEN Texto(CelulaConfig(1, Variacao)) ELSE <<>>
            /\ (d = D_fornecedor /\ p \in {P_led, P_LED}) => cel = <<>>
            /\ (d = D_lampada /\ p \in {P_led, P_LED}) => cel = T_x

\* The upper-case pattern "LED" found as the word LED of "Lâmpada LED 12W".
C1_Witness ==
    /\ pc = "concluido" /\ UmPadrao /\ Len(result_df.rows) = 1
    /\ CelulaDados(1, Descricao) = D_lampada
    /\ CelulaConfig(1, Padrao) = P_LED
    /\ CelulaResultado(1, T_Cor) = T_x

----------------------------------------------------------------------------
(* C2 *)

\* C2: in the table returned by processamento_direto_otimizado and by
\* processar_dados, the cell of every record for every attribute is empty
\* when no rule of the attribute matched the record's description, and is
\* otherwise the variations of the matching rules, each distinct one once, in
\* configuration order, joined by ", ".
C2_CellIsOrderedDistinctJoin ==
    (pc = "concluido" /\ modo \in {"direto", "relatorios"}) =>
        /\ Len(result_df.rows) = Len(data_df.rows)
        /\ \A r \in 1..Len(data_df.rows) : \A a \in AtributosDe :
              CelulaResultado(r, a) = Esperada(a, CelulaDados(r, Descricao))

\* Two rules of Voltagem with the variation "110v" both match "LED 127" and
\* the cell holds "110v" once; a second variation follows after ", ".
C2_Witness ==
    /\ pc = "concluido" /\ modo = "direto"
    /\ config_df.rows = <<R_110, R_127>>
    /\ Len(data_df.rows) = 2
    /\ CelulaDados(1, Descricao) = D_led127
    /\ RegraCasa(1, D_led127) /\ RegraCasa(2, D_led127)
    /\ CelulaResultado(1, T_Voltagem) = T_110v
    /\ CelulaDados(2, Descricao) = D_teto
    /\ CelulaResultado(2, T_Voltagem) = T_110v

----------------------------------------------------------------------------
(* C3 *)

\* The columns of the result that follow the columns of the data table.
ColunasAnexadas ==
    SubSeq(result_df.cols, Len(data_df.cols) + 1, Len(result_df.cols))

\* The distinct non-null Atributo values, in the order they first appear.
RECURSIVE VistosAte(_)
VistosAte(n) ==
    IF n = 0 THEN <<>>
    ELSE LET a == CelulaConfig(n, Atributo)
         IN  IF a \in {NaN, NA} \/ \E m \in 1..(n - 1) : CelulaConfig(m, Atributo) = a
             THEN VistosAte(n - 1)
             ELSE Append(VistosAte(n - 1), a)

\* s without the elements of the set S
RECURSIVE Sem(_, _)
Sem(s, S) ==
    IF s = <<>> THEN <<>>
    ELSE IF Head(s) \in S THEN Sem(Tail(s), S) ELSE <<Head(s)>> \o Sem(Tail(s), S)

\* a sorts before b: at the first position where they differ a has the
\* smaller code point, or a is a proper prefix of b.
Antes(a, b) ==
    \E k \in 1..(Len(b)) :
        /\ \A m \in 1..(k - 1) : m <= Len(a) /\ a[m] = b[m]
        /\ \/ k = Len(a) + 1
           \/ /\ k <= Len(a)
              /\ \E x, y \in DOMAIN CodePointOrder :
                    x < y /\ CodePointOrder[x] = a[k] /\ CodePointOrder[y] = b[k]

\* The variations of the rows of attribute a, in configuration order.
RECURSIVE VariacoesDesde(_, _)
VariacoesDesde(a, n) ==
    IF n > Len(config_df.rows) THEN <<>>
    ELSE IF CelulaConfig(n, Atributo) = a
         THEN <<Texto(CelulaConfig(n, Variacao))>> \o VariacoesDesde(a, n + 1)
         ELSE VariacoesDesde(a, n + 1)

\* C3 as the specification states it: the attribute columns appended to the
\* result are in the first-seen order of the distinct Atributo values.
C3_FirstSeenColumnOrder ==
    (pc = "concluido" /\ result_df.cols # <<>>) =>
        ColunasAnexadas = Sem(VistosAte(Len(config_df.rows)), Range(data_df.cols))

\* C3, amended: the attribute columns appended to the result are the distinct
\* Atributo values in ascending sorted order, and within one attribute the
\* rules are compiled in configuration order.
C3_SortedColumnOrder ==
    /\ (pc = "concluido" /\ result_df.cols # <<>>) =>
          /\ Range(ColunasAnexadas) = AtributosDe \ Range(data_df.cols)
          /\ \A k, m \in 1..Len(ColunasAnexadas) :
                k < m => Antes(ColunasAnexadas[k], ColunasAnexadas[m])
    /\ \A k \in 1..Len(config_dict) :
          [n \in 1..Len(config_dict[k].configs) |-> config_dict[k].configs[n].variation]
            = VariacoesDesde(config_dict[k].attr, 1)

\* The template configuration has its Voltagem rows first and its Cor rows
\* last; the result has Cor before Voltagem, the three Voltagem rules in
\* their configuration order.
C3_Witness ==
    /\ pc = "concluido"
    /\ config_df = ConfigTemplate
    /\ Len(config_dict) = 2
    /\ config_dict[2].attr = T_Voltagem
    /\ Len(config_dict[2].configs) = 3
    /\ config_dict[2].configs[2].variation = T_220v
    /\ Len(result_df.rows) > 0
    /\ result_df.cols = DataCols \o <<T_Cor, T_Voltagem>>

----------------------------------------------------------------------------
(* C4 *)

\* C4: the final table of processar_em_lotes_otimizado keeps the input row
\* order for every batch size: its r-th row is the r-th input row, with the
\* input cells of the columns no attribute is named after and with the
\* attribute cells of the r-th description.
C4_BatchKeepsRowOrder ==
    (pc = "concluido" /\ modo = "lotes") =>
        /\ Len(result_df.rows) <= Len(data_df.rows)
        /\ \A r \in 1..Len(result_df.rows) :
              /\ \A c \in Range(data_df.cols) \ AtributosDe :
                    CelulaResultado(r, c) = CelulaDados(r, c)
              /\ Descricao \notin AtributosDe =>
                    \A a \in AtributosDe :
                        CelulaResultado(r, a) = Esperada(a, CelulaDados(r, Descricao))

\* Two batches of one row each, concatenated: row 1 is record "100" with the
\* cells of its description, row 2 is record "200" with the cells of its own.
C4_Witness ==
    /\ pc = "concluido" /\ modo = "lotes" /\ ~timeout
    /\ tamanho_lote = 1 /\ Len(resultados) = 2
    /\ config_df.rows = <<R_110, R_amarelo>>
    /\ CelulaDados(1, Descricao) = D_teto /\ CelulaDados(2, Descricao) = D_led127
    /\ CelulaResultado(1, ID) = <<"1","0","0">> /\ CelulaResultado(2, ID) = <<"2","0","0">>
    /\ CelulaResultado(1, T_Cor) = T_Amarelo /\ CelulaResultado(2, T_Cor) = <<>>

----------------------------------------------------------------------------
(* C5 *)

\* C5: every completed run, direct or batched, has one result row per input
\* record.
C5_OneRowPerRecord ==
    (pc = "concluido" /\ modo \in {"direto", "lotes"}) =>
        Len(result_df.rows) = Len(data_df.rows)

----------------------------------------------------------------------------
(* C6 *)

\* C6: when a required column is missing from the data table or from the
\* configuration table, no record is matched and no result table is bound:
\* the page stops at its validation, before either processing function is
\* called, and processar_dados raises ValueError.
C6_SchemaErrorBeforeProcessing ==
    ~EntradasValidas =>
        /\ pc \in {"inicio", "parado", "erro"}
        /\ result_df = NoTable
        /\ config_dict = <<>> /\ resultados = <<>> /\ rendimentos = <<>>
        /\ pc = "parado" => (modo \in {"direto", "lotes"} /\ erro = "st.stop")
        /\ pc = "erro" => (modo = "relatorios" /\ erro = "ValueError")

\* processar_dados has raised ValueError for a data table without Descrição.
C6_Witness ==
    /\ Descricao \notin Range(data_df.cols)
    /\ data_df.rows # <<>>
    /\ modo = "relatorios"
    /\ pc = "erro" /\ erro = "ValueError"
    /\ result_df = NoTable

----------------------------------------------------------------------------
(* C7 *)

\* C7: a record whose Descrição is missing has the empty string in every
\* attribute column, whatever the patterns of the rule set.
C7_NullDescriptionMatchesNothing ==
    (pc = "concluido" /\ ~timeout /\ Len(result_df.rows) = Len(data_df.rows)) =>
        \A r \in 1..Len(data_df.rows) :
            CelulaDados(r, Descricao) \in {NaN, NA} =>
                \A a \in AtributosDe : CelulaResultado(r, a) = <<>>

----------------------------------------------------------------------------
(* C8 *)

\* The pattern cell of row n holds commas and blanks only.
Inerte(n) ==
    LET s == Texto(CelulaConfig(n, Padrao))
    IN  \A k \in 1..Len(s) : s[k] = "," \/ Branco(s[k])

\* The variations of the rows of attribute a that have some fragment.
VariacoesVivas(a) ==
    {Texto(CelulaConfig(n, Variacao)) :
        n \in {m \in 1..Len(config_df.rows) :
                  CelulaConfig(m, Atributo) = a /\ ~Inerte(m)}}

\* C8: a configuration row whose pattern cell has no non-empty fragment
\* raises no error and contributes nothing: every run ends without error and
\* every cell is made only of variations of the rows of its attribute that do
\* have a fragment (the empty cell when there is none).
C8_EmptyPatternRowIsInert ==
    (pc = "concluido") =>
        /\ erro = ""
        /\ \A r \in 1..Len(result_df.rows) : \A a \in AtributosDe :
              \E lista \in Strings(VariacoesVivas(a), Len(config_df.rows)) :
                  CelulaResultado(r, a) = Junta(lista, Len(lista))

\* Cor has the rule Amarelo and a rule Vazio with the cell ",,": the record
\* that mentions amarelo gets "Amarelo" alone.
C8_Witness ==
    /\ pc = "concluido" /\ erro = ""
    /\ config_df.rows = <<R_amarelo, R_vazio>>
    /\ Inerte(2)
    /\ Len(result_df.rows) > 0
    /\ CelulaDados(1, Descricao) = D_teto
    /\ CelulaResultado(1, T_Cor) = T_Amarelo

----------------------------------------------------------------------------
(* C9 *)

\* C9: every column of the input table is in the result table with the same
\* value in every row, whatever the Atributo names are.
C9_InputColumnsUnchanged ==
    (pc = "concluido" /\ modo \in {"direto", "lotes"} /\ ~timeout) =>
        /\ Range(data_df.cols) \subseteq Range(result_df.cols)
        /\ Len(result_df.rows) = Len(data_df.rows)
        /\ \A r \in 1..Len(data_df.rows) : \A c \in Range(data_df.cols) :
              CelulaResultado(r, c) = CelulaDados(r, c)

----------------------------------------------------------------------------
(* C10 *)

\* C10: a second run over the same two tables, in the same mode and with the
\* same batch size, ends with the same result table as the first.
C10_SameResultOnRerun ==
    (pc = "concluido" /\ execucao > 1) => result_df = result_anterior

----------------------------------------------------------------------------
(* C11 *)

\* C11: processing has no side effect on its inputs: no step of a run, direct
\* or batched or of processar_dados, changes the caller's data table or the
\* configuration table, and from its compilation to the end of the run the
\* compiled rule set is not changed by any step that matches records.
C11_NoSideEffectOnInputs ==
    [][/\ data_df' = data_df
       /\ config_df' = config_df
       /\ pc \in {"laco", "final", "rendido", "rendido_final"} =>
              config_dict' = config_dict]_vars

\* A batch run has ended: the result has the attribute columns, the caller's
\* table still has the input columns only, and the rule set is the one
\* compiled from the configuration.
C11_Witness ==
    /\ pc = "concluido" /\ modo = "lotes" /\ ~timeout
    /\ config_df.rows = <<R_110, R_amarelo>>
    /\ Len(data_df.rows) = 2
    /\ data_df.cols = DataCols
    /\ result_df.cols = DataCols \o <<T_Cor, T_Voltagem>>
    /\ config_dict = Compilar(config_df)

----------------------------------------------------------------------------
(* C12 *)

Cenario1 == Config(SubSeq(RegrasExemplo, 1, 3))
Cenario2 == Config(RegrasExemplo)

\* C12: with the three rules of the first scenario the record 1414,
\* "Ventilador de teto 110 amarelo biv", gets Voltagem "110v, Bivolt" and Cor
\* "Amarelo"; with the two added rules the description "Luminária LED 220v
\* branca" gets Voltagem "220v" and Cor "Branca". Every result row of every
\* run over the example tables has these cells, next to its ID and
\* description.
C12_WorkedExample ==
    pc = "concluido" =>
        \A r \in 1..Len(result_df.rows) :
            /\ (config_df = Cenario1 /\ CelulaResultado(r, Descricao) = D_ventilador) =>
                  /\ CelulaResultado(r, ID) = ID_1414
                  /\ CelulaResultado(r, T_Voltagem) = T_110v \o <<",", " ">> \o T_Bivolt
                  /\ CelulaResultado(r, T_Cor) = T_Amarelo
            /\ (config_df = Cenario2 /\ CelulaResultado(r, Descricao) = D_luminaria) =>
                  /\ CelulaResultado(r, ID) = ID_2525
                  /\ CelulaResultado(r, T_Voltagem) = T_220v
                  /\ CelulaResultado(r, T_Cor) = T_Branca

\* processamento_direto_otimizado has returned the table of the second
\* scenario for the two template records.
C12_Witness ==
    /\ pc = "concluido" /\ modo = "direto"
    /\ config_df = Cenario2
    /\ data_df.rows = <<L_ventilador, L_luminaria>>
    /\ CelulaResultado(2, T_Voltagem) = T_220v
    /\ CelulaResultado(2, T_Cor) = T_Branca
    /\ CelulaResultado(1, T_Cor) = T_Amarelo

----------------------------------------------------------------------------
(* C13 *)

\* C13: for every data table, the empty one included, every configuration
\* table and every batch size, the final table of processar_em_lotes_otimizado
\* is the table processamento_direto_otimizado returns for the same two
\* tables: same columns, same rows, same cells. Stated for the runs in which
\* the timeout check never fired.
C13_BatchEqualsDirect ==
    (pc = "concluido" /\ modo = "lotes" /\ ~timeout) =>
        result_df = processamento_direto_otimizado(data_df, config_df)

----------------------------------------------------------------------------
(* C14 *)

\* C14: for tables that have the required columns, processar_dados and
\* processamento_direto_otimizado return the same table: every completed run
\* of either ends with the table the other returns for the same two tables.
C14_RelatoriosEqualsDirect ==
    /\ (pc = "concluido" /\ modo = "relatorios") =>
          result_df = processamento_direto_otimizado(data_df, config_df)
    /\ (pc = "concluido" /\ modo = "direto") =>
          result_df = processar_dados(data_df, config_df)

\* processar_dados has run with a pattern cell that ends in an empty
\* fragment, " 127 ,nan,NA,", on a description that mentions 127: it skipped
\* the empty fragment and matched 127.
C14_Witness ==
    /\ pc = "concluido" /\ modo = "relatorios"
    /\ config_df.rows = <<R_127>>
    /\ <<>> \in Range(patterns_rel(P_127_nan))
    /\ Len(data_df.rows) = 1
    /\ CelulaDados(1, Descricao) = D_led127
    /\ CelulaResultado(1, T_Voltagem) = T_110v

----------------------------------------------------------------------------
(* C15 *)

\* C15: with more rows than LIMITE_CRITICO_RENDER and "Tentar processar mesmo
\* assim" unchecked, the page is before its gate or stopped at it and has
\* called neither processing function; the ceiling is the page's alone, for a
\* function that is called and runs to its end returns one row per row
\* whatever the row count (unless the batch timeout cut it).
C15_CriticalLimitGate ==
    /\ (len_data_df > LIMITE_CRITICO_RENDER(render_plan)
            /\ ~widgets.tentar_mesmo_assim) =>
          /\ chamadas = <<>>
          /\ pc \in {"estatisticas", "parado"}
    /\ pc = "parado" => (chamadas = <<>> /\ erro = "st.stop")
    /\ (pc \in {"concluido", "erro", "download", "fim"} /\ ~timeout) =>
          /\ chamadas # <<>>
          /\ len_result_df = len_data_df

\* On the paid plan a table of 200001 rows was processed in batches because
\* the box was checked.
C15_Witness ==
    /\ render_plan = "paid"
    /\ len_data_df = LIMITE_CRITICO_RENDER("paid") + 1
    /\ widgets.tentar_mesmo_assim
    /\ chamadas = <<"processar_em_lotes_otimizado">>
    /\ pc = "fim"
    /\ len_result_df = len_data_df

----------------------------------------------------------------------------
(* C16 *)

\* The rows of the first k tables of a sequence of yields, in order.
RECURSIVE LinhasAte(_, _)
LinhasAte(ys, k) ==
    IF k = 0 THEN <<>> ELSE LinhasAte(ys, k - 1) \o ys[k].tabela.rows

\* The first k tables put one after the other: the columns of the first, the
\* rows of all; no table at all gives the table without columns or rows.
Concatenacao(ys, k) ==
    IF k = 0 THEN [cols |-> <<>>, rows |-> <<>>]
    ELSE [cols |-> ys[1].tabela.cols, rows |-> LinhasAte(ys, k)]

\* Fractions: p < q, 0 < p, p <= 1, p = 1
FracMenor(p, q) == p.num * q.den < q.num * p.den
FracEmZeroUm(p) == 0 < p.num /\ p.num <= p.den
FracUm(p)       == p.num = p.den

\* C16: processar_em_lotes_otimizado yields one pair per processed batch, with
\* progress strictly increasing inside (0, 1], and then exactly one last pair
\* (1.0, table) whose table is the concatenation, in order, of the batches
\* yielded before it; the consumer loop ends with result_df bound to that
\* table.
C16_YieldSequence ==
    modo = "lotes" =>
        LET n == Len(rendimentos)
            lotes == Len(resultados)
        IN  /\ n \in {lotes, lotes + 1}
            /\ pc \in {"laco", "final", "rendido"} => n = lotes
            /\ pc \in {"rendido_final", "concluido"} => n = lotes + 1
            /\ \A k \in 1..lotes :
                  /\ rendimentos[k].tabela = resultados[k]
                  /\ FracEmZeroUm(rendimentos[k].progresso)
                  /\ k > 1 => FracMenor(rendimentos[k - 1].progresso,
                                        rendimentos[k].progresso)
            /\ n = lotes + 1 =>
                  /\ FracUm(rendimentos[n].progresso)
                  /\ rendimentos[n].tabela = Concatenacao(rendimentos, lotes)
            /\ pc = "concluido" => result_df = rendimentos[n].tabela

\* Two batches of one row were yielded at progress 1/2 and 1, then the pair
\* (1.0, both rows); result_df has the two rows, not the last batch alone.
C16_Witness ==
    /\ pc = "concluido" /\ modo = "lotes" /\ ~timeout
    /\ tamanho_lote = 1
    /\ Len(rendimentos) = 3
    /\ rendimentos[1].progresso = [num |-> 1, den |-> 2]
    /\ FracUm(rendimentos[2].progresso)
    /\ Len(rendimentos[2].tabela.rows) = 1
    /\ Len(result_df.rows) = 2
    /\ config_df.rows = <<R_110>>

----------------------------------------------------------------------------
(* C17 *)

\* C17: once the timeout check has fired no later batch is matched, and a
\* progress of 1.0 is yielded only when every input row has been processed:
\* the rows of the batches yielded up to a pair of progress 1.0 are as many
\* as the rows of the input table.
C17_CompletionOnlyAfterAllRows ==
    modo = "lotes" =>
        /\ timeout =>
              /\ pc \in {"final", "rendido_final", "concluido", "interrompido"}
              /\ Len(LinhasAte(rendimentos, Len(resultados))) = i
              /\ i < Len(data_df.rows)
        /\ \A k \in 1..Len(rendimentos) :
              FracUm(rendimentos[k].progresso) =>
                  Len(LinhasAte(rendimentos, Min(k, Len(resultados))))
                      = Len(data_df.rows)

----------------------------------------------------------------------------
(* C18 *)

\* C18: a result table of more than 50000 rows is partitioned by its download
\* parts: the parts are consecutive row ranges in order, the first starts at
\* the first row and the last ends at the last, each has at most 50000 rows
\* and none is empty. (Part k holds the rows inicio + 1 .. fim.)
C18_DownloadPartsPartition ==
    (pc = "fim" /\ len_result_df > 50000) =>
        /\ partes # <<>>
        /\ partes[1].inicio = 0
        /\ partes[Len(partes)].fim = len_result_df
        /\ \A k \in 1..Len(partes) :
              /\ partes[k].fim - partes[k].inicio <= 50000
              /\ partes[k].fim - partes[k].inicio >= 1
              /\ k > 1 => partes[k].inicio = partes[k - 1].fim

====
